---- MODULE Spec2Model ----
(***************************************************************************)
(* A model of ytdlp-downloader (src/main.py, src/db_functions.py).         *)
(*                                                                         *)
(* Text is modelled as a sequence of one-character strings, so that the    *)
(* string operations of the program (splitext, rsplit, split, strip, the   *)
(* regular expressions of parse_formats, substring tests, lexical          *)
(* comparison) are computed character by character as the code does.       *)
(***************************************************************************)
EXTENDS Integers, Sequences, FiniteSets, TLC

VARIABLES
    fn,     \* the pure function under test ("none" in the session machine)
    arg,    \* its input
    ret,    \* the values it returned so far
    store,      \* the rows of table completed_downloads, in id order
    store_seq,  \* the last id given out (AUTOINCREMENT never reuses an id)
    \* MainWindow
    lineEdit,               \* the URL field's text
    comboItems,             \* the combo box's items
    comboIndex,             \* the current item, 1-based; 0 when there is none (Qt's -1)
    selectionType,
    downloadButton,         \* the start trigger is enabled
    pushButton,             \* the format-listing trigger is enabled
    download_data,
    fileNameLabel,
    status, file_size, downloaded_bytes, transfer_rate, eta,
    tableWidget,            \* the results table's rows
    current_row_position,   \* 1-based; Null when unset
    progressBar, downloadedLabel, fileSizeLabel,
    download_thread,        \* the DownloadWorker's url and ydl_opts
    \* threads and the event loop
    worker,     \* the worker thread: "none", "running", "done"
    started,    \* workers started so far
    events,     \* engine progress events of the running worker so far
    emitted,    \* the signals the last worker emitted so far, in order
    queue,      \* notifications emitted by the worker, not yet delivered
    tick_pc,    \* the control thread inside a tick: "idle" or "update_table"
    modal,      \* the dialog whose nested event loop is running, or "none"
    fault,      \* "none", or why the process has ended
    op          \* the handler that ran last, with what it was given

pureVars == <<fn, arg, ret>>
dbVars == <<store, store_seq>>
comboVars == <<comboItems, comboIndex, selectionType>>
fieldVars == <<status, file_size, downloaded_bytes, transfer_rate, eta>>
displayVars == <<progressBar, downloadedLabel, fileSizeLabel>>
tableVars == <<tableWidget, current_row_position>>
workerVars == <<download_thread, worker, started, events, emitted>>
guiVars == <<lineEdit, comboItems, comboIndex, selectionType, downloadButton, pushButton,
             download_data, fileNameLabel, status, file_size, downloaded_bytes,
             transfer_rate, eta, tableWidget, current_row_position, progressBar,
             downloadedLabel, fileSizeLabel, download_thread, worker, started, events,
             emitted, queue, tick_pc, modal, fault, op>>
vars == <<fn, arg, ret, store, store_seq, guiVars>>

(***************************************************************************)
(* Text helpers                                                            *)
(***************************************************************************)
\* Python's None and a dictionary key that is not present, for a value that
\* is a text otherwise and for one that is a number (>= 0) otherwise
NullText == <<"<None>">>
AbsentText == <<"<absent>">>
Null == 0 - 2
Absent == 0 - 1

\* str.rfind(c), 1-based: the last position of c in s, 0 when there is none
RFind(s, c) ==
    IF \E i \in 1..Len(s) : s[i] = c
    THEN CHOOSE i \in 1..Len(s) : s[i] = c /\ \A j \in (i+1)..Len(s) : s[j] # c
    ELSE 0

\* str.find(c), 1-based: the first position of c in s, 0 when there is none
Find(s, c) ==
    IF \E i \in 1..Len(s) : s[i] = c
    THEN CHOOSE i \in 1..Len(s) : s[i] = c /\ \A j \in 1..(i-1) : s[j] # c
    ELSE 0

(***************************************************************************)
(* normalize_filename                                                      *)
(***************************************************************************)
\* os.path.splitext(p)[0] on a POSIX path: the extension starts at the last
\* dot of the last path component, leading dots of the component excluded.
splitext_root(p) ==
    LET sepIndex == RFind(p, "/")
        dotIndex == RFind(p, ".")
    IN  IF dotIndex > sepIndex
           /\ \E k \in (sepIndex+1)..(dotIndex-1) : p[k] # "."
        THEN SubSeq(p, 1, dotIndex - 1)
        ELSE p

\* s.rsplit(".", 1)[0]
rsplit_dot_first(s) ==
    LET dotIndex == RFind(s, ".")
    IN  IF dotIndex > 0 THEN SubSeq(s, 1, dotIndex - 1) ELSE s

\* a plausible slip: only the extension is removed
normalize_filename_ext_only(filename) ==
    splitext_root(filename)

normalize_filename(filename) ==
    rsplit_dot_first(splitext_root(filename))

(***************************************************************************)
(* Characters, numbers and their text                                      *)
(***************************************************************************)
DigitChars == <<"0", "1", "2", "3", "4", "5", "6", "7", "8", "9">>

\* the characters the model uses, in ascending code point order
AsciiOrder ==
    <<" ", "0", "1", "2", "3", "4", "5", "6", "7", "8", "9", ":",
      "A", "D", "E", "F", "I", "K", "L", "N", "O", "R", "S", "T", "U", "X", "_",
      "a", "b", "c", "d", "e", "f", "h", "i", "l", "m", "n", "o", "p", "r", "s",
      "t", "u", "w", "x", "y">>

Ord(c) == CHOOSE i \in 1..Len(AsciiOrder) : AsciiOrder[i] = c

IsDigit(c) == \E i \in 1..10 : DigitChars[i] = c
IsSpace(c) == c \in {" ", "\t", "\n", "\r"}
IsWord(c) == c \in {AsciiOrder[i] : i \in 1..Len(AsciiOrder)} \ {" ", ":"}

DigitValue(c) == (CHOOSE i \in 1..10 : DigitChars[i] = c) - 1

\* str(n) for n >= 0
RECURSIVE Digits(_)
Digits(n) ==
    IF n < 10 THEN <<DigitChars[n + 1]>>
    ELSE Digits(n \div 10) \o <<DigitChars[(n % 10) + 1]>>

\* int(s) for a text of decimal digits
RECURSIVE ParseInt(_)
ParseInt(s) ==
    IF Len(s) = 0 THEN 0
    ELSE 10 * ParseInt(SubSeq(s, 1, Len(s) - 1)) + DigitValue(s[Len(s)])

\* literal in text (Python's substring test)
Contains(text, literal) ==
    \E i \in 1..(Len(text) - Len(literal) + 1) :
        SubSeq(text, i, i + Len(literal) - 1) = literal

\* a < b for Python strings: lexicographic by code point
RECURSIVE TextLess(_, _)
TextLess(a, b) ==
    IF b = << >> THEN FALSE
    ELSE IF a = << >> THEN TRUE
    ELSE IF a[1] # b[1] THEN Ord(a[1]) < Ord(b[1])
    ELSE TextLess(Tail(a), Tail(b))

T_4K == <<"4", "K">>
T_2K == <<"2", "K">>
T_1440p == <<"1", "4", "4", "0", "p">>
T_1080p == <<"1", "0", "8", "0", "p">>
T_720p == <<"7", "2", "0", "p">>
T_480p == <<"4", "8", "0", "p">>
T_LowResolution ==
    <<"L", "o", "w", " ", "R", "e", "s", "o", "l", "u", "t", "i", "o", "n">>
T_AudioOnly == <<"A", "u", "d", "i", "o", " ", "O", "n", "l", "y">>
T_audio_only == <<"a", "u", "d", "i", "o", " ", "o", "n", "l", "y">>
T_SelectFormat ==
    <<"S", "e", "l", "e", "c", "t", " ", "F", "o", "r", "m", "a", "t">>

(***************************************************************************)
(* parse_formats                                                           *)
(***************************************************************************)
\* output.splitlines(): lines end at "\n", "\r" or "\r\n"; the text after
\* the last line end is a line only when it is not empty
RECURSIVE splitlines(_)
splitlines(output) ==
    IF output = << >> THEN << >>
    ELSE LET ends == {i \in 1..Len(output) : output[i] \in {"\n", "\r"}}
         IN  IF ends = {} THEN <<output>>
             ELSE LET e == CHOOSE i \in ends : \A j \in ends : i <= j
                      next == IF output[e] = "\r" /\ e < Len(output) /\ output[e + 1] = "\n"
                              THEN e + 2 ELSE e + 1
                  IN  <<SubSeq(output, 1, e - 1)>>
                          \o splitlines(SubSeq(output, next, Len(output)))

\* the end (exclusive) of the longest run of characters of class P from i
RunEnd(s, i, P(_)) ==
    CHOOSE j \in i..(Len(s) + 1) :
        /\ \A k \in i..(j - 1) : P(s[k])
        /\ j = Len(s) + 1 \/ ~P(s[j])

NoMatch == [matched |-> FALSE]

\* the common prefix ^(\d+)\s+\w+\s+ : the positions after each part, all
\* parts non-empty (the character classes are disjoint where they meet, so
\* the greedy match is the only one)
PrefixMatch(line) ==
    LET d == RunEnd(line, 1, IsDigit)
        s1 == RunEnd(line, d, IsSpace)
        w == RunEnd(line, s1, IsWord)
        s2 == RunEnd(line, w, IsSpace)
    IN  [matched |-> d > 1 /\ s1 > d /\ w > s1 /\ s2 > w, code |-> SubSeq(line, 1, d - 1), at |-> s2]

\* re.match(r"^(\d+)\s+\w+\s+(\d+x\d+)", line)
video_match(line) ==
    LET p == PrefixMatch(line)
        r1 == RunEnd(line, p.at, IsDigit)
        r2 == RunEnd(line, r1 + 1, IsDigit)
    IN  IF p.matched /\ r1 > p.at /\ r1 <= Len(line) /\ line[r1] = "x" /\ r2 > r1 + 1
        THEN [matched |-> TRUE, code |-> p.code, resolution |-> SubSeq(line, p.at, r2 - 1)]
        ELSE NoMatch

\* re.match(r"^(\d+)\s+\w+\s+audio only", line)
audio_match(line) ==
    LET p == PrefixMatch(line)
    IN  IF /\ p.matched
           /\ p.at + Len(T_audio_only) - 1 <= Len(line)
           /\ SubSeq(line, p.at, p.at + Len(T_audio_only) - 1) = T_audio_only
        THEN [matched |-> TRUE, code |-> p.code]
        ELSE NoMatch

\* a plausible slip: the thresholds of 1080p and 720p exchanged
resolution_to_label_swapped(res) ==
    LET height == ParseInt(SubSeq(res, Find(res, "x") + 1, Len(res)))
    IN  IF height >= 2160 THEN T_4K
        ELSE IF height >= 1440 THEN T_2K
        ELSE IF height >= 1080 THEN T_720p
        ELSE IF height >= 720 THEN T_1080p
        ELSE IF height >= 480 THEN T_480p
        ELSE T_LowResolution

\* width, height = map(int, res.split("x")), then the height thresholds
resolution_to_label(res) ==
    LET height == ParseInt(SubSeq(res, Find(res, "x") + 1, Len(res)))
    IN  IF height >= 2160 THEN T_4K
        ELSE IF height >= 1440 THEN T_2K
        ELSE IF height >= 1080 THEN T_1080p
        ELSE IF height >= 720 THEN T_720p
        ELSE IF height >= 480 THEN T_480p
        ELSE T_LowResolution

\* f"{format_code}: {label}"
FormatText(code, label) == code \o <<":", " ">> \o label

\* the loop body of parse_formats for one line
parse_line(formats, line) ==
    LET v == video_match(line)
        a == audio_match(line)
        withVideo ==
            IF v.matched
            THEN [formats EXCEPT !.video =
                      Append(@, FormatText(v.code, resolution_to_label(v.resolution)))]
            ELSE formats
    IN  IF a.matched
        THEN [withVideo EXCEPT !.audio = FormatText(a.code, T_AudioOnly)]
        ELSE withVideo

RECURSIVE parse_lines(_, _)
parse_lines(formats, lines) ==
    IF lines = << >> THEN formats
    ELSE parse_lines(parse_line(formats, lines[1]), Tail(lines))

\* a plausible slip: the first audio-only line wins instead of the last
RECURSIVE parse_lines_first_audio(_, _)
parse_lines_first_audio(formats, lines) ==
    IF lines = << >> THEN formats
    ELSE LET next == parse_line(formats, lines[1])
         IN  parse_lines_first_audio(
                 IF formats.audio # NullText THEN [next EXCEPT !.audio = formats.audio] ELSE next,
                 Tail(lines))

parse_formats_first_audio(output) ==
    parse_lines_first_audio([audio |-> NullText, video |-> << >>], splitlines(output))

parse_formats(output) ==
    parse_lines([audio |-> NullText, video |-> << >>], splitlines(output))

(***************************************************************************)
(* populate_combo_box: the items offered, in order                         *)
(***************************************************************************)
\* x.split(":")[1] of an item with one colon: the text after the colon
SortKey(x) == SubSeq(x, Find(x, ":") + 1, Len(x))

\* sorted(..., reverse=True) is stable: x goes before the first element whose
\* key is smaller, after every element whose key is equal or greater
InsertDescending(sorted, x) ==
    LET smaller == {i \in 1..Len(sorted) : TextLess(SortKey(sorted[i]), SortKey(x))}
        at == IF smaller = {} THEN Len(sorted) + 1
              ELSE CHOOSE i \in smaller : \A j \in smaller : i <= j
    IN  SubSeq(sorted, 1, at - 1) \o <<x>> \o SubSeq(sorted, at, Len(sorted))

RECURSIVE SortedDescending(_, _)
SortedDescending(sorted, rest) ==
    IF rest = << >> THEN sorted
    ELSE SortedDescending(InsertDescending(sorted, rest[1]), Tail(rest))

sorted_videos(video) == SortedDescending(<< >>, video)

\* the placeholder, the audio entry when there is one, the sorted video entries
ComboItems(formats) ==
    <<T_SelectFormat>>
        \o (IF formats.audio # NullText THEN <<formats.audio>> ELSE << >>)
        \o sorted_videos(formats.video)

(***************************************************************************)
(* db_functions.py: the table completed_downloads                          *)
(***************************************************************************)
\* INSERT INTO table (filename, file_size, status, time_left, transfer_rate)
\* VALUES info: one more row, with the next id
add_file_to_database_table(rows, seq, info) ==
    Append(rows, [id |-> seq + 1, filename |-> info[1], file_size |-> info[2],
                  status |-> info[3], time_left |-> info[4],
                  transfer_rate |-> info[5]])

\* DELETE FROM table WHERE filename = ?
delete_where_filename(rows, filename) ==
    LET Keep(row) == row.filename # filename IN SelectSeq(rows, Keep)

\* a plausible slip: only the first matching row is deleted
delete_first_where_filename(rows, filename) ==
    LET at == {i \in 1..Len(rows) : rows[i].filename = filename}
        first == CHOOSE i \in at : \A j \in at : i <= j
    IN  IF at = {} THEN rows
        ELSE SubSeq(rows, 1, first - 1) \o SubSeq(rows, first + 1, Len(rows))

RECURSIVE delete_files_first_match(_, _)
delete_files_first_match(rows, filenames) ==
    IF filenames = << >> THEN rows
    ELSE delete_files_first_match(delete_first_where_filename(rows, filenames[1]),
                                    Tail(filenames))

\* for filename in filenames: DELETE ...; then commit
RECURSIVE delete_files_from_database(_, _)
delete_files_from_database(rows, filenames) ==
    IF filenames = << >> THEN rows
    ELSE delete_files_from_database(delete_where_filename(rows, filenames[1]),
                                    Tail(filenames))

\* sqlite3.connect(database): the connection sees the committed rows, and its
\* first DELETE opens a transaction on a working copy of them
connect(rows) == [committed |-> rows, working |-> rows]

\* cursor.execute(DELETE ... WHERE filename = ?), inside the transaction
execute_delete(connection, filename) ==
    [connection EXCEPT !.working = delete_where_filename(@, filename)]

\* connection.commit()
commit(connection) == [connection EXCEPT !.committed = connection.working]

RECURSIVE execute_deletes(_, _)
execute_deletes(connection, filenames) ==
    IF filenames = << >> THEN connection
    ELSE execute_deletes(execute_delete(connection, filenames[1]), Tail(filenames))

\* a plausible slip: a commit after every statement
RECURSIVE execute_deletes_commit_each(_, _)
execute_deletes_commit_each(connection, filenames) ==
    IF filenames = << >> THEN connection
    ELSE execute_deletes_commit_each(commit(execute_delete(connection, filenames[1])),
                                     Tail(filenames))

delete_files_commit_each(rows, filenames, fails_at) ==
    LET done == IF fails_at = 0 THEN Len(filenames) ELSE fails_at - 1
    IN  execute_deletes_commit_each(connect(rows), SubSeq(filenames, 1, done)).committed

\* delete_files_from_database when the execute of statement fails_at raises
\* (0: none does): the statements before it have run, the exception leaves
\* the function before commit and close, and the rows a later connection
\* reads are the committed ones
delete_files_transaction(rows, filenames, fails_at) ==
    LET done == IF fails_at = 0 THEN Len(filenames) ELSE fails_at - 1
        connection == execute_deletes(connect(rows), SubSeq(filenames, 1, done))
    IN  IF fails_at = 0 THEN commit(connection).committed ELSE connection.committed

\* SELECT * FROM table: the rows in id order
fetch_entries_from_database(rows) == rows

(***************************************************************************)
(* Texts and numbers shown by the window                                   *)
(***************************************************************************)
T_DownloadingPrefix ==
    <<"D", "o", "w", "n", "l", "o", "a", "d", "i", "n", "g", ":", " ">>
T_FileNameNone ==
    <<"F", "i", "l", "e", " ", "N", "a", "m", "e", ":", " ", "N", "o", "n", "e">>

\* text.replace(old, ""): every occurrence of old removed, left to right
RECURSIVE RemoveAll(_, _)
RemoveAll(text, old) ==
    IF Len(text) < Len(old) THEN text
    ELSE IF SubSeq(text, 1, Len(old)) = old
    THEN RemoveAll(SubSeq(text, Len(old) + 1, Len(text)), old)
    ELSE <<text[1]>> \o RemoveAll(Tail(text), old)

\* text.strip()
strip(text) ==
    LET solid == {i \in 1..Len(text) : ~IsSpace(text[i])}
    IN  IF solid = {} THEN << >>
        ELSE SubSeq(text, CHOOSE i \in solid : \A j \in solid : i <= j,
                          CHOOSE i \in solid : \A j \in solid : j <= i)

MiB == 1048576
GiB == 1073741824

\* f"{n / (1024 * 1024):.2f}" in hundredths, rounded half up
MBHundredths(n) == (n \div MiB) * 100 + ((n % MiB) * 100 + MiB \div 2) \div MiB

\* f"{n / (1024 * 1024 * 1024):.2f}" in hundredths, rounded half up
GBHundredths(n) == (100 * (n \div MiB) + 512 + (100 * (n % MiB)) \div MiB) \div 1024

\* the texts of the cells and labels, by what they show
SizeText(unit, hundredths) == [unit |-> unit, hundredths |-> hundredths]
PercentText(hundredths) == [kind |-> "%", hundredths |-> hundredths]
CompletedText == [kind |-> "Completed", hundredths |-> 0]
TimeText(seconds) == [kind |-> "H:MM:SS", seconds |-> seconds]
NAText == [kind |-> "N/A", seconds |-> 0]
IdleDownloadedText == SizeText("Downloaded: 0 MB", 0)
IdleFileSizeText == SizeText("File Size: 0 MB", 0)

(***************************************************************************)
(* Progress snapshots (the dictionaries the engine gives its hooks)        *)
(***************************************************************************)
\* the empty dictionary: no key present
EmptyDict ==
    [status |-> "<absent>", filename |-> AbsentText, downloaded_bytes |-> Absent,
     total_bytes |-> Absent, total_bytes_estimate |-> Absent, speed |-> Absent,
     eta |-> Absent]

\* d.get(key, default) for a number-valued key
Get(value, default) == IF value = Absent THEN default ELSE value

\* d.get("total_bytes", d.get("total_bytes_estimate", default))
TotalBytes(d, default) == Get(d.total_bytes, Get(d.total_bytes_estimate, default))

\* Python's truth value of a number or None
Truthy(n) == n # Null /\ n # 0

(***************************************************************************)
(* MainWindow.progress_hook                                                *)
(***************************************************************************)
\* lines 492-495: the label after a snapshot
LabelAfter(label, d) ==
    IF d.filename # AbsentText
    THEN T_DownloadingPrefix \o normalize_filename(d.filename)
    ELSE label

\* lines 496-508: status, file_size, downloaded_bytes, transfer_rate, eta
FieldsAfter(fields, d) ==
    IF d.status = "downloading"
    THEN <<"Downloading", TotalBytes(d, 0), Get(d.downloaded_bytes, 0),
           Get(d.speed, 0), Get(d.eta, 0)>>
    ELSE IF d.status = "finished"
    THEN <<"Finished", TotalBytes(d, 0), TotalBytes(d, 0), 0, 0>>
    ELSE fields

(***************************************************************************)
(* MainWindow.update_progress and update_table                             *)
(***************************************************************************)
\* downloaded_bytes / total_bytes * 100 in hundredths of a percent: exact for
\* the byte counts of the model
PercentHundredths(downloaded, total) ==
    IF Truthy(total) THEN (downloaded * 20000 + total) \div (2 * total) ELSE 0

\* a plausible slip: the fraction downloaded / total_bytes, not times 100
BarValue_fraction(downloaded, total) ==
    LET percent == IF Truthy(total) THEN downloaded \div total ELSE 0
    IN  IF percent < 0 THEN 0 ELSE IF percent > 100 THEN 100 ELSE percent

\* min(max(int(percent), 0), 100)
BarValue(downloaded, total) ==
    LET percent == IF Truthy(total) THEN (downloaded * 100) \div total ELSE 0
    IN  IF percent < 0 THEN 0 ELSE IF percent > 100 THEN 100 ELSE percent

\* a plausible slip: update_table is called whatever the status
CallsUpdateTableAlways(d) == TRUE

\* line 529: the periodic tick goes on to update_table
CallsUpdateTable(d) == d.status # "finished"

\* lines 514-527 on one read of download_data: what is shown, or the
\* TypeError of None / int (line 524 for downloaded_bytes, 525 for the total)
update_progress(d, display) ==
    LET downloaded == Get(d.downloaded_bytes, 0)
        total == TotalBytes(d, 1)
    IN  IF d = EmptyDict
        THEN [fault |-> "none", display |-> <<0, IdleDownloadedText, IdleFileSizeText>>]
        ELSE IF downloaded = Null
        THEN [fault |-> "TypeError", display |-> display]
        ELSE IF total = Null
        THEN [fault |-> "TypeError",
              display |-> <<display[1], SizeText("MB", MBHundredths(downloaded)), display[3]>>]
        ELSE [fault |-> "none",
              display |-> <<BarValue(downloaded, total),
                            SizeText("MB", MBHundredths(downloaded)),
                            SizeText("MB", MBHundredths(total))>>]

\* lines 571-581: the first row whose normalized name is base, 0 when none
RowOf(rows, base) ==
    LET at == {i \in 1..Len(rows) : normalize_filename(rows[i].filename) = base}
    IN  IF at = {} THEN 0 ELSE CHOOSE i \in at : \A j \in at : i <= j

\* lines 536-598 on one read of download_data and of the label: the rows and
\* the remembered row, or the TypeError of None / int (line 541 for
\* downloaded_bytes, 545 for the total, 549 for the speed)
update_table(d, label, rows, current) ==
    LET downloaded == Get(d.downloaded_bytes, 0)
        total == TotalBytes(d, 1)
        speed == Get(d.speed, 0)
        percent == PercentHundredths(downloaded, total)
        filename == strip(RemoveAll(label, T_DownloadingPrefix))
        found == RowOf(rows, normalize_filename(filename))
        row_position == IF found = 0 THEN Len(rows) + 1 ELSE found
        row == [filename |-> filename,
                file_size |-> SizeText("MB", MBHundredths(total)),
                status |-> IF percent < 10000 THEN PercentText(percent) ELSE CompletedText,
                time_left |-> IF d.eta \in {Absent, Null} THEN NAText ELSE TimeText(d.eta),
                transfer_rate |-> SizeText("MB/s", MBHundredths(speed))]
    IN  IF d = EmptyDict
        THEN [fault |-> "none", rows |-> rows, current |-> current]
        ELSE IF (Truthy(total) /\ downloaded = Null) \/ total = Null \/ speed = Null
        THEN [fault |-> "TypeError", rows |-> rows, current |-> current]
        ELSE [fault |-> "none",
              rows |-> IF found = 0 THEN Append(rows, row)
                       ELSE [rows EXCEPT ![found] = row],
              current |-> IF found = 0 THEN row_position ELSE current]

(***************************************************************************)
(* MainWindow.combo_changed and the format of start_download               *)
(***************************************************************************)
\* a plausible slip: 4K tested before 2K, both given the 1440p type
combo_changed_4k_as_2k(selected_text) ==
    IF selected_text = << >> THEN "unknown"
    ELSE IF Contains(selected_text, T_AudioOnly) THEN "audio"
    ELSE IF Contains(selected_text, T_4K) \/ Contains(selected_text, T_2K)
    THEN "video1440p"
    ELSE IF Contains(selected_text, T_1080p) THEN "video1080p"
    ELSE IF Contains(selected_text, T_720p) THEN "video720p"
    ELSE "unknown"

\* lines 604-619: the selection type of the current text
combo_changed(selected_text) ==
    IF selected_text = << >> THEN "unknown"
    ELSE IF Contains(selected_text, T_AudioOnly) THEN "audio"
    ELSE IF Contains(selected_text, T_1440p) \/ Contains(selected_text, T_2K)
    THEN "video1440p"
    ELSE IF Contains(selected_text, T_1080p) THEN "video1080p"
    ELSE IF Contains(selected_text, T_720p) THEN "video720p"
    ELSE IF Contains(selected_text, T_4K) THEN "video4K"
    ELSE "unknown"

\* lines 449-473: ydl_opts["format"], "" when the selection type is refused
FormatFor(selection) ==
    CASE selection = "audio" -> "bestaudio/best"
      [] selection = "video720p" -> "bestvideo[height<=720]+bestaudio"
      [] selection = "video1080p" -> "bestvideo[height=1080]+bestaudio"
      [] selection = "video1440p" -> "bestvideo[height=1440]+bestaudio"
      [] selection = "video2K" -> "bestvideo[height=1440]+bestaudio"
      [] selection = "video4K" -> "bestvideo[height=2160]+bestaudio"
      [] OTHER -> ""

(***************************************************************************)
(* MainWindow.__init__                                                     *)
(***************************************************************************)
Op(name, outcome, d) == [name |-> name, outcome |-> outcome, data |-> d]

\* initialize_table_from_database: one table row per stored row, the id left out
initialize_table_from_database(entries) ==
    [i \in 1..Len(entries) |->
        [filename |-> entries[i].filename, file_size |-> entries[i].file_size,
         status |-> entries[i].status, time_left |-> entries[i].time_left,
         transfer_rate |-> entries[i].transfer_rate]]

\* the window after construction over the stored rows (the widgets as tube.ui
\* is taken to leave them: nothing entered, nothing listed, zeroed figures)
GuiConstructed(entries) ==
    /\ lineEdit = << >>
    /\ comboItems = << >> /\ comboIndex = 0
    /\ selectionType = "None"
    /\ downloadButton = TRUE /\ pushButton = TRUE
    /\ download_data = EmptyDict
    /\ fileNameLabel = T_FileNameNone
    /\ status = "None" /\ file_size = Null /\ downloaded_bytes = Null
    /\ transfer_rate = Null /\ eta = Null
    /\ tableWidget = initialize_table_from_database(fetch_entries_from_database(entries))
    /\ current_row_position = Null
    /\ progressBar = 0
    /\ downloadedLabel = IdleDownloadedText /\ fileSizeLabel = IdleFileSizeText
    /\ download_thread = [url |-> << >>, format |-> "", noplaylist |-> TRUE]
    /\ worker = "none" /\ started = 0 /\ events = 0 /\ emitted = << >>
    /\ queue = << >>
    /\ tick_pc = "idle" /\ modal = "none" /\ fault = "none"
    /\ op = Op("__init__", "", EmptyDict)

(***************************************************************************)
(* Specification of normalize_filename applied repeatedly to a filename    *)
(***************************************************************************)
\* Filenames are dot-joined segments: a title of one or more segments, a
\* format-code suffix, an extension ("T.f137.mp4", "T.T.f137.mp4", "T").
MaxSegments == 4
Segments == {<<"T">>, <<"f", "1", "3", "7">>, <<"m", "p", "4">>}

RECURSIVE JoinDot(_)
JoinDot(segs) ==
    IF segs = << >> THEN << >>
    ELSE IF Len(segs) = 1 THEN segs[1]
    ELSE segs[1] \o <<".">> \o JoinDot(Tail(segs))

RECURSIVE SeqsUpTo(_, _)
SeqsUpTo(S, n) ==
    IF n = 0 THEN {<< >>}
    ELSE LET shorter == SeqsUpTo(S, n - 1)
         IN  shorter \cup {Append(s, x) : s \in {t \in shorter : Len(t) = n - 1}, x \in S}

Filenames == {JoinDot(segs) : segs \in SeqsUpTo(Segments, MaxSegments)}

InitNormalize ==
    /\ store = << >> /\ store_seq = 0
    /\ GuiConstructed(<< >>)
    /\ fn = "normalize_filename"
    /\ arg \in Filenames
    /\ ret = << >>

\* one more application: normalize_filename(f), then normalize_filename of that
NormalizeCall ==
    /\ fn = "normalize_filename"
    /\ Len(ret) < 2
    /\ ret' = Append(ret, normalize_filename(IF ret = << >> THEN arg ELSE ret[Len(ret)]))
    /\ UNCHANGED <<fn, arg>>
    /\ UNCHANGED <<dbVars, guiVars>>

NextNormalize == NormalizeCall

SpecNormalize == InitNormalize /\ [][NextNormalize]_vars

(***************************************************************************)
(* Specification of resolution_to_label applied to two resolutions         *)
(***************************************************************************)
Heights == {0, 144, 479, 480, 719, 720, 1079, 1080, 1439, 1440, 2159, 2160, 4320}
Widths == {1, 1920, 7680}

\* the text WIDTHxHEIGHT of a resolution
ResolutionText(r) == Digits(r.width) \o <<"x">> \o Digits(r.height)

InitLabel ==
    /\ store = << >> /\ store_seq = 0
    /\ GuiConstructed(<< >>)
    /\ fn = "resolution_to_label"
    /\ arg \in [width : Widths, height : Heights] \X [width : Widths, height : Heights]
    /\ ret = << >>

\* classify the first resolution, then the second
LabelCall ==
    /\ fn = "resolution_to_label"
    /\ Len(ret) < 2
    /\ ret' = Append(ret, resolution_to_label(ResolutionText(arg[Len(ret) + 1])))
    /\ UNCHANGED <<fn, arg>>
    /\ UNCHANGED <<dbVars, guiVars>>

NextLabel == LabelCall

SpecLabel == InitLabel /\ [][NextLabel]_vars

(***************************************************************************)
(* Specification of parse_formats followed by populate_combo_box's order   *)
(***************************************************************************)
MaxLines == 3

T_mp4 == <<"m", "p", "4">>
T_m4a == <<"m", "4", "a">>

VideoLine(code, width, height) ==
    Digits(code) \o <<" ">> \o T_mp4 \o <<" ", " ">>
        \o ResolutionText([width |-> width, height |-> height])
AudioLine(code) == Digits(code) \o <<" ">> \o T_m4a \o <<" ">> \o T_audio_only

\* lines of a format listing, each with what it is by construction: video
\* formats of every label (two of 1080p), audio-only formats, and lines that
\* are neither (the header, a storyboard whose code is not numeric, an
\* indented line, "audio only" without an extension token before it)
VideoListingLine(code, width, height, rest) ==
    [kind |-> "video", code |-> code, height |-> height,
     text |-> VideoLine(code, width, height) \o rest]
AudioListingLine(code, rest) ==
    [kind |-> "audio", code |-> code, height |-> 0, text |-> AudioLine(code) \o rest]
OtherListingLine(text) ==
    [kind |-> "other", code |-> 0, height |-> 0, text |-> text]

ListingLines ==
    { VideoListingLine(313, 3840, 2160, << >>), VideoListingLine(271, 2560, 1440, << >>),
      VideoListingLine(137, 1920, 1080, << >>), VideoListingLine(299, 1920, 1080, <<" ", "6", "0">>),
      VideoListingLine(136, 1280, 720, << >>), VideoListingLine(135, 854, 480, << >>),
      VideoListingLine(160, 256, 144, << >>),
      AudioListingLine(140, << >>), AudioListingLine(251, <<" ", "2">>),
      OtherListingLine(<<"I", "D", " ", "E", "X", "T", " ", "R", "E", "S", "O", "L", "U", "T", "I", "O", "N">>),
      OtherListingLine(<<"s", "b", "0", " ", "m", "h", "t", "m", "l", " ", "4", "8", "x", "2", "7">>),
      OtherListingLine(<<" ">> \o VideoLine(18, 640, 360)),
      OtherListingLine(<<"1", "4", "0", " ">> \o T_audio_only) }

\* the engine's output: the lines joined by newlines
RECURSIVE JoinLines(_)
JoinLines(lines) ==
    IF lines = << >> THEN << >>
    ELSE IF Len(lines) = 1 THEN lines[1].text
    ELSE lines[1].text \o <<"\n">> \o JoinLines(Tail(lines))

Listings == SeqsUpTo(ListingLines, MaxLines)

InitFormats ==
    /\ store = << >> /\ store_seq = 0
    /\ GuiConstructed(<< >>)
    /\ fn = "parse_formats"
    /\ arg \in Listings
    /\ ret = << >>

\* formats = parse_formats(output)
ParseFormatsCall ==
    /\ fn = "parse_formats"
    /\ ret = << >>
    /\ ret' = <<parse_formats(JoinLines(arg))>>
    /\ UNCHANGED <<fn, arg>>
    /\ UNCHANGED <<dbVars, guiVars>>

\* populate_combo_box(formats): the items added to the combo box
PopulateCall ==
    /\ fn = "parse_formats"
    /\ Len(ret) = 1
    /\ ret' = Append(ret, ComboItems(ret[1]))
    /\ UNCHANGED <<fn, arg>>
    /\ UNCHANGED <<dbVars, guiVars>>

NextFormats == ParseFormatsCall \/ PopulateCall

SpecFormats == InitFormats /\ [][NextFormats]_vars

(***************************************************************************)
(* Specification of the table under inserts and deletes by filename        *)
(***************************************************************************)
MaxInserts == 3
MaxDeleteLen == 2

T_Tmp4 == <<"T", ".", "m", "p", "4">>
T_Tm4a == <<"T", ".", "m", "4", "a">>
T_Ump4 == <<"U", ".", "m", "p", "4">>
DbNames == {T_Tmp4, T_Tm4a, T_Ump4}

DbSizes == {SizeText("MB", 150), SizeText("GB", 100)}

InitDb ==
    /\ fn = "db_functions"
    /\ arg = [call |-> "create_database_or_database_table"]
    /\ ret = << >>
    /\ store = << >>
    /\ store_seq = 0
    /\ GuiConstructed(<< >>)

\* add_file_to_database_table(filename, size, "Completed", "N/A", "0.00 MB/S", table)
DbAdd(filename, size) ==
    /\ fn = "db_functions"
    /\ store_seq < MaxInserts
    /\ store' = add_file_to_database_table(store, store_seq,
                    <<filename, size, CompletedText, NAText, SizeText("MB/S", 0)>>)
    /\ store_seq' = store_seq + 1
    /\ arg' = [call |-> "add_file_to_database_table", filename |-> filename]
    /\ ret' = store
    /\ UNCHANGED <<fn, guiVars>>

\* delete_files_from_database(filenames, table); ret keeps the rows before it
DbDelete(filenames) ==
    /\ fn = "db_functions"
    /\ store' = delete_files_from_database(store, filenames)
    /\ arg' = [call |-> "delete_files_from_database", filenames |-> filenames]
    /\ ret' = store
    /\ UNCHANGED <<fn, store_seq, guiVars>>

\* delete_files_from_database(filenames, table) when the DELETE of
\* filenames[fails_at] raises (the database is locked, the disk fails); ret
\* keeps the rows before it
DbDeleteRaises(filenames, fails_at) ==
    /\ fn = "db_functions"
    /\ store' = delete_files_transaction(store, filenames, fails_at)
    /\ arg' = [call |-> "delete_files_from_database raises", filenames |-> filenames,
               fails_at |-> fails_at]
    /\ ret' = store
    /\ UNCHANGED <<fn, store_seq, guiVars>>

NextDb ==
    \/ \E filename \in DbNames, size \in DbSizes : DbAdd(filename, size)
    \/ \E filenames \in SeqsUpTo(DbNames, MaxDeleteLen) : DbDelete(filenames)
    \/ \E filenames \in SeqsUpTo(DbNames, MaxDeleteLen) :
           \E fails_at \in 1..Len(filenames) : DbDeleteRaises(filenames, fails_at)

SpecDb == InitDb /\ [][NextDb]_vars

(***************************************************************************)
(* The session: the control thread's handlers                              *)
(***************************************************************************)
\* downloads started in a session, and progress reports of one download
MaxDownloads == 1
MaxEvents == 2

\* the event loop can run a handler: the process lives and no tick is under way
LoopReady == fault = "none" /\ tick_pc = "idle"

\* the user can reach the window: no dialog is open
UserReady == LoopReady /\ modal = "none"

\* the user edits the URL field
EditUrl(text) ==
    /\ UserReady
    /\ text # lineEdit
    /\ lineEdit' = text
    /\ op' = Op("edit_url", "", EmptyDict)
    /\ UNCHANGED <<pureVars, dbVars, comboVars, downloadButton, pushButton, download_data,
                   fileNameLabel, fieldVars, tableVars, displayVars, workerVars, queue,
                   tick_pc, modal, fault>>

\* get_formats with the engine's listing, or its failure (listing = "failed"):
\* pushButton is disabled and enabled again before the handler returns
GetFormats(failed, listing) ==
    /\ UserReady
    /\ pushButton
    /\ IF strip(lineEdit) = << >>
       THEN /\ op' = Op("get_formats", "Input Error", EmptyDict)
            /\ UNCHANGED comboVars
       ELSE IF failed
       THEN /\ op' = Op("get_formats", "Error", EmptyDict)
            /\ UNCHANGED comboVars
       ELSE \* populate_combo_box: clear(), then the placeholder becomes current
            \* and combo_changed runs on it
            /\ comboItems' = ComboItems(parse_formats(JoinLines(listing)))
            /\ comboIndex' = 1
            /\ selectionType' = combo_changed(T_SelectFormat)
            /\ op' = Op("get_formats", "listed", EmptyDict)
    /\ pushButton' = TRUE
    /\ UNCHANGED <<pureVars, dbVars, lineEdit, downloadButton, download_data,
                   fileNameLabel, fieldVars, tableVars, displayVars, workerVars, queue,
                   tick_pc, modal, fault>>

\* the user picks an entry of the combo box (the placeholder is disabled);
\* currentIndexChanged runs combo_changed
SelectFormat(i) ==
    /\ UserReady
    /\ i \in 2..Len(comboItems)
    /\ i # comboIndex
    /\ comboIndex' = i
    /\ selectionType' = combo_changed(comboItems[i])
    /\ op' = Op("combo_changed", "", EmptyDict)
    /\ UNCHANGED <<pureVars, dbVars, lineEdit, comboItems, downloadButton, pushButton,
                   download_data, fileNameLabel, fieldVars, tableVars, displayVars,
                   workerVars, queue, tick_pc, modal, fault>>

\* a plausible slip: the URL is not stripped before it is tested
start_download_url_raw(text) == text

\* line 423: url = self.lineEdit.text().strip()
start_download_url(text) == strip(text)

\* a plausible slip: a selection type that was never set passes for 720p
start_download_format_default(selection) ==
    IF selection = "None" THEN FormatFor("video720p") ELSE FormatFor(selection)

\* lines 428-473: the format of the transfer, "" when the selection is refused
start_download_format(selection) ==
    IF selection = "unknown" THEN "" ELSE FormatFor(selection)

\* a plausible slip: the start trigger is not disabled when the worker starts
StartDownload_trigger_left_on(playlist) ==
    /\ UserReady
    /\ downloadButton
    /\ LET url == start_download_url(lineEdit)
           format == start_download_format(selectionType)
       IN  IF url = << >>
           THEN /\ op' = Op("start_download", "URL Error", EmptyDict)
                /\ UNCHANGED <<workerVars, downloadButton>>
           ELSE IF selectionType = "unknown"
           THEN /\ op' = Op("start_download", "Selection Error", EmptyDict)
                /\ UNCHANGED <<workerVars, downloadButton>>
           ELSE IF format = ""
           THEN /\ op' = Op("start_download", "Invalid selection type", EmptyDict)
                /\ UNCHANGED <<workerVars, downloadButton>>
           ELSE /\ started < MaxDownloads
                /\ download_thread' = [url |-> url, format |-> format,
                                       noplaylist |-> ~playlist]
                /\ worker' = "running"
                /\ started' = started + 1
                /\ events' = 0
                /\ emitted' = << >>
                /\ UNCHANGED downloadButton
                /\ op' = Op("start_download", "started", EmptyDict)
    /\ UNCHANGED <<pureVars, dbVars, lineEdit, comboVars, pushButton, download_data,
                   fileNameLabel, fieldVars, tableVars, displayVars, queue, tick_pc,
                   modal, fault>>

\* start_download: the user clicks the start trigger
StartDownload(playlist) ==
    /\ UserReady
    /\ downloadButton
    /\ LET url == start_download_url(lineEdit)
           format == start_download_format(selectionType)
       IN  IF url = << >>
           THEN /\ op' = Op("start_download", "URL Error", EmptyDict)
                /\ UNCHANGED <<workerVars, downloadButton>>
           ELSE IF selectionType = "unknown"
           THEN /\ op' = Op("start_download", "Selection Error", EmptyDict)
                /\ UNCHANGED <<workerVars, downloadButton>>
           ELSE IF format = ""
           THEN /\ op' = Op("start_download", "Invalid selection type", EmptyDict)
                /\ UNCHANGED <<workerVars, downloadButton>>
           ELSE /\ started < MaxDownloads
                /\ download_thread' = [url |-> url, format |-> format,
                                       noplaylist |-> ~playlist]
                /\ worker' = "running"
                /\ started' = started + 1
                /\ events' = 0
                /\ emitted' = << >>
                /\ downloadButton' = FALSE
                /\ op' = Op("start_download", "started", EmptyDict)
    /\ UNCHANGED <<pureVars, dbVars, lineEdit, comboVars, pushButton, download_data,
                   fileNameLabel, fieldVars, tableVars, displayVars, queue, tick_pc,
                   modal, fault>>

\* progress_hook(d), on whichever thread calls it
ProgressHook(d) ==
    /\ download_data' = d
    /\ fileNameLabel' = LabelAfter(fileNameLabel, d)
    /\ LET fields == FieldsAfter(<<status, file_size, downloaded_bytes, transfer_rate, eta>>, d)
       IN  /\ status' = fields[1]
           /\ file_size' = fields[2]
           /\ downloaded_bytes' = fields[3]
           /\ transfer_rate' = fields[4]
           /\ eta' = fields[5]

\* clear_input
ClearInputEffect ==
    /\ lineEdit' = << >>
    /\ comboItems' = << >>
    /\ comboIndex' = 0
    /\ selectionType' = IF comboIndex # 0 THEN combo_changed(<< >>) ELSE selectionType
    /\ progressBar' = 0
    /\ downloadedLabel' = IdleDownloadedText
    /\ fileSizeLabel' = IdleFileSizeText
    /\ fileNameLabel' = T_FileNameNone
    /\ download_data' = EmptyDict

\* the user clicks the clear button
ClearInput ==
    /\ UserReady
    /\ ClearInputEffect
    /\ op' = Op("clear_input", "", EmptyDict)
    /\ UNCHANGED <<pureVars, dbVars, downloadButton, pushButton, fieldVars, tableVars,
                   workerVars, queue, tick_pc, modal, fault>>

\* the timer fires: update_progress up to the call of update_table
UpdateProgress ==
    /\ LoopReady
    /\ LET r == update_progress(download_data, <<progressBar, downloadedLabel, fileSizeLabel>>)
       IN  /\ progressBar' = r.display[1]
           /\ downloadedLabel' = r.display[2]
           /\ fileSizeLabel' = r.display[3]
           /\ fault' = r.fault
           /\ tick_pc' = IF r.fault = "none" /\ download_data # EmptyDict
                            /\ CallsUpdateTable(download_data)
                         THEN "update_table" ELSE "idle"
    /\ op' = Op("update_progress", "", download_data)
    /\ UNCHANGED <<pureVars, dbVars, lineEdit, comboVars, downloadButton, pushButton,
                   download_data, fileNameLabel, fieldVars, tableVars, workerVars, queue,
                   modal>>

\* the tick goes on: update_table, on its own reads of download_data and of
\* the label
UpdateTable ==
    /\ fault = "none"
    /\ tick_pc = "update_table"
    /\ LET r == update_table(download_data, fileNameLabel, tableWidget, current_row_position)
       IN  /\ tableWidget' = r.rows
           /\ current_row_position' = r.current
           /\ fault' = r.fault
           /\ op' = Op("update_table",
                       IF r.rows = tableWidget THEN "same" ELSE "changed", download_data)
    /\ tick_pc' = "idle"
    /\ UNCHANGED <<pureVars, dbVars, lineEdit, comboVars, downloadButton, pushButton,
                   download_data, fileNameLabel, fieldVars, displayVars, workerVars,
                   queue, modal>>

\* the progress notification is delivered: progress_hook(d) on the control thread
DeliverProgress ==
    /\ LoopReady
    /\ queue # << >> /\ queue[1].sig = "progress"
    /\ ProgressHook(queue[1].d)
    /\ queue' = Tail(queue)
    /\ op' = Op("progress_hook", "", queue[1].d)
    /\ UNCHANGED <<pureVars, dbVars, lineEdit, comboVars, downloadButton, pushButton,
                   tableVars, displayVars, workerVars, tick_pc, modal, fault>>

\* lines 646-650: the size shown for a file of n bytes
FileSizeText(n) ==
    IF n >= GiB THEN SizeText("GB", GBHundredths(n)) ELSE SizeText("MB", MBHundredths(n))

\* lines 653-667: the remembered row overwritten (a position past the last row
\* is ignored by the table)
CompletedRow(rows, current, filename, size) ==
    IF current # Null /\ current <= Len(rows)
    THEN [rows EXCEPT ![current] =
              [filename |-> filename, file_size |-> size, status |-> CompletedText,
               time_left |-> NAText, transfer_rate |-> SizeText("MB/S", 0)]]
    ELSE rows

\* what on_download_finished was given: the name in the notification and the
\* size the file system answers (no size when the file is not there)
Artifact(filename, size) ==
    [EmptyDict EXCEPT !.filename = filename, !.total_bytes = size]

\* the finished notification is delivered: on_download_finished up to its
\* dialog. exists and size are what the file system answers, db_fails whether
\* the insert raises
DeliverFinished(exists, size, db_fails) ==
    /\ LoopReady
    /\ queue # << >> /\ queue[1].sig = "finished"
    /\ queue' = Tail(queue)
    /\ downloadButton' = TRUE
    /\ LET filename == queue[1].name IN
       IF exists
       THEN /\ tableWidget' = CompletedRow(tableWidget, current_row_position, filename,
                                           FileSizeText(size))
            /\ IF db_fails
               THEN /\ UNCHANGED <<dbVars, modal>>
                    /\ op' = Op("on_download_finished", "Download Error",
                                Artifact(filename, size))
               ELSE /\ store' = add_file_to_database_table(store, store_seq,
                                   <<filename, FileSizeText(size), CompletedText, NAText,
                                     SizeText("MB/S", 0)>>)
                    /\ store_seq' = store_seq + 1
                    /\ modal' = "Download Finished"
                    /\ op' = Op("on_download_finished", "saved", Artifact(filename, size))
       ELSE /\ ~db_fails /\ size = 0
            /\ modal' = "Download Finished"
            /\ op' = Op("on_download_finished", "missing", Artifact(filename, Absent))
            /\ UNCHANGED <<dbVars, tableWidget>>
    /\ UNCHANGED <<pureVars, lineEdit, comboVars, pushButton, download_data,
                   fileNameLabel, fieldVars, current_row_position, displayVars,
                   workerVars, tick_pc, fault>>

\* the "Download Finished" dialog is closed: on_download_finished goes on to
\* clear_input
CloseFinishedDialog ==
    /\ LoopReady
    /\ modal = "Download Finished"
    /\ modal' = "none"
    /\ ClearInputEffect
    /\ op' = Op("on_download_finished", "cleared", EmptyDict)
    /\ UNCHANGED <<pureVars, dbVars, downloadButton, pushButton, fieldVars, tableVars,
                   workerVars, queue, tick_pc, fault>>

\* a plausible slip: the error handler shows its dialog and does not enable
\* the start trigger
DeliverError_trigger_left_off ==
    /\ LoopReady
    /\ queue # << >> /\ queue[1].sig = "error"
    /\ queue' = Tail(queue)
    /\ op' = Op("on_download_error", "", EmptyDict)
    /\ UNCHANGED <<pureVars, dbVars, lineEdit, comboVars, pushButton, download_data,
                   fileNameLabel, fieldVars, tableVars, displayVars, workerVars, tick_pc,
                   modal, fault, downloadButton>>

\* a plausible slip: the error handler also forgets the stored history
DeliverError_forgets_history ==
    /\ LoopReady
    /\ queue # << >> /\ queue[1].sig = "error"
    /\ queue' = Tail(queue)
    /\ downloadButton' = TRUE
    /\ store' = << >>
    /\ op' = Op("on_download_error", "", EmptyDict)
    /\ UNCHANGED <<pureVars, store_seq, lineEdit, comboVars, pushButton, download_data,
                   fileNameLabel, fieldVars, tableVars, displayVars, workerVars, tick_pc,
                   modal, fault>>

\* the error notification is delivered: on_download_error
DeliverError ==
    /\ LoopReady
    /\ queue # << >> /\ queue[1].sig = "error"
    /\ queue' = Tail(queue)
    /\ downloadButton' = TRUE
    /\ op' = Op("on_download_error", "", EmptyDict)
    /\ UNCHANGED <<pureVars, dbVars, lineEdit, comboVars, pushButton, download_data,
                   fileNameLabel, fieldVars, tableVars, displayVars, workerVars, tick_pc,
                   modal, fault>>

\* the rows at the positions of at, in order
RECURSIVE RowsAt(_, _, _)
RowsAt(rows, at, i) ==
    IF i > Len(rows) THEN << >>
    ELSE (IF i \in at THEN <<rows[i]>> ELSE << >>) \o RowsAt(rows, at, i + 1)

RECURSIVE FilenamesOf(_)
FilenamesOf(rows) ==
    IF rows = << >> THEN << >> ELSE <<rows[1].filename>> \o FilenamesOf(Tail(rows))

\* delete_selected_files with the rows the user highlighted
DeleteSelectedFiles(selected_rows) ==
    /\ UserReady
    /\ selected_rows # {}
    /\ store' = delete_files_from_database(store,
                    FilenamesOf(RowsAt(tableWidget, selected_rows, 1)))
    /\ tableWidget' = RowsAt(tableWidget, (1..Len(tableWidget)) \ selected_rows, 1)
    /\ op' = Op("delete_selected_files", "", EmptyDict)
    /\ UNCHANGED <<pureVars, store_seq, lineEdit, comboVars, downloadButton, pushButton,
                   download_data, fileNameLabel, fieldVars, current_row_position,
                   displayVars, workerVars, queue, tick_pc, modal, fault>>

(***************************************************************************)
(* The session: the worker thread (DownloadWorker.run)                     *)
(***************************************************************************)
Notification(sig, d, name) == [sig |-> sig, d |-> d, name |-> name]

\* the engine reports progress: its hooks are self.progress_hook, called here
\* on the worker thread (ydl_opts["progress_hooks"]), and then progress.emit.
\* The hook writes the window's label from the worker thread, which the
\* toolkit does not define: the write takes effect, or the process ends
WorkerProgress(d, survives) ==
    /\ fault = "none"
    /\ worker = "running"
    /\ events < MaxEvents
    /\ events' = events + 1
    /\ IF survives
       THEN /\ ProgressHook(d)
            /\ queue' = Append(queue, Notification("progress", d, << >>))
            /\ emitted' = Append(emitted, "progress")
            /\ UNCHANGED fault
       ELSE /\ fault' = "widget used off the control thread"
            /\ UNCHANGED <<download_data, fileNameLabel, fieldVars, queue, emitted>>
    /\ op' = Op("worker progress_hook", "", d)
    /\ UNCHANGED <<pureVars, dbVars, lineEdit, comboVars, downloadButton, pushButton,
                   tableVars, displayVars, download_thread, worker, started, tick_pc,
                   modal>>

\* a plausible slip: finished is emitted while the engine call can still raise,
\* so that run goes on after it
WorkerFinished_then_goes_on(merged_filename) ==
    /\ fault = "none"
    /\ worker = "running"
    /\ ~("finished" \in {emitted[i] : i \in 1..Len(emitted)})
    /\ queue' = Append(queue, Notification("finished", EmptyDict, merged_filename))
    /\ emitted' = Append(emitted, "finished")
    /\ op' = Op("worker finished.emit", "", EmptyDict)
    /\ UNCHANGED <<pureVars, dbVars, lineEdit, comboVars, downloadButton, pushButton,
                   download_data, fileNameLabel, fieldVars, tableVars, displayVars,
                   download_thread, worker, started, events, tick_pc, modal, fault>>

\* line 106: extract_info returned; finished.emit(merged_filename)
WorkerFinished(merged_filename) ==
    /\ fault = "none"
    /\ worker = "running"
    /\ worker' = "done"
    /\ queue' = Append(queue, Notification("finished", EmptyDict, merged_filename))
    /\ emitted' = Append(emitted, "finished")
    /\ op' = Op("worker finished.emit", "", EmptyDict)
    /\ UNCHANGED <<pureVars, dbVars, lineEdit, comboVars, downloadButton, pushButton,
                   download_data, fileNameLabel, fieldVars, tableVars, displayVars,
                   download_thread, started, events, tick_pc, modal, fault>>

\* line 108: the engine raised; error.emit(str(e))
WorkerError ==
    /\ fault = "none"
    /\ worker = "running"
    /\ worker' = "done"
    /\ queue' = Append(queue, Notification("error", EmptyDict, << >>))
    /\ emitted' = Append(emitted, "error")
    /\ op' = Op("worker error.emit", "", EmptyDict)
    /\ UNCHANGED <<pureVars, dbVars, lineEdit, comboVars, downloadButton, pushButton,
                   download_data, fileNameLabel, fieldVars, tableVars, displayVars,
                   download_thread, started, events, tick_pc, modal, fault>>

(***************************************************************************)
(* The session's specification                                             *)
(***************************************************************************)
T_Tf137mp4 == <<"T", ".", "f", "1", "3", "7", ".", "m", "p", "4">>
T_Tf140m4a == <<"T", ".", "f", "1", "4", "0", ".", "m", "4", "a">>

Snapshot(st, filename, downloaded, total, estimate, speed, seconds) ==
    [status |-> st, filename |-> filename, downloaded_bytes |-> downloaded,
     total_bytes |-> total, total_bytes_estimate |-> estimate, speed |-> speed,
     eta |-> seconds]

\* the engine's snapshots: a video fragment at 50 and at 100 of 100 bytes and
\* finished, and an audio fragment whose total is 0, None or not given
Snapshots ==
    { Snapshot("downloading", T_Tf137mp4, 50, 100, Absent, 2 * MiB, 5),
      Snapshot("downloading", T_Tf137mp4, 100, 100, Absent, 2 * MiB, 0),
      Snapshot("finished", T_Tf137mp4, 100, 100, Absent, Absent, Absent) }
    \cup { Snapshot("downloading", T_Tf140m4a, downloaded, total, Absent, MiB, Null) :
               downloaded \in {50}, total \in {0, Null, Absent} }

UrlTexts == {<< >>, <<" ">>, <<"u", " ">>}

\* two listings that between them hold every label, with format codes that
\* read like other labels' heights
SessionListings ==
    { <<AudioListingLine(2160, << >>), VideoListingLine(720, 1920, 1080, << >>),
        VideoListingLine(1080, 1280, 720, << >>), VideoListingLine(135, 854, 480, << >>)>>,
      <<VideoListingLine(1440, 3840, 2160, << >>), VideoListingLine(4, 2560, 1440, << >>),
        VideoListingLine(160, 256, 144, << >>)>> }

MergedFilenames == {T_Tmp4, T_Tm4a}
\* sizes on disk: 1.43 MB, one byte short of 1 GiB, 1 GiB
DiskSizes == {1500000, GiB - 1, GiB}

\* the record on_download_finished inserts for T.mp4 of 1500000 bytes
StoredRecord ==
    <<T_Tmp4, SizeText("MB", 143), CompletedText, NAText, SizeText("MB/S", 0)>>

\* what earlier sessions left in the table completed_downloads: nothing, one
\* download of T.mp4, or two downloads of it (every completion inserts a record)
StoredRows ==
    { << >>,
      add_file_to_database_table(<< >>, 0, StoredRecord),
      add_file_to_database_table(add_file_to_database_table(<< >>, 0, StoredRecord),
                                 1, StoredRecord) }

Init ==
    /\ fn = "none" /\ arg = << >> /\ ret = << >>
    /\ store \in StoredRows
    /\ store_seq = Len(store)
    /\ GuiConstructed(store)

\* the session without progress reports: what the user can do, and downloads
\* that end
Next ==
    \/ \E text \in UrlTexts : EditUrl(text)
    \/ \E listing \in SessionListings : GetFormats(FALSE, listing)
    \/ GetFormats(TRUE, << >>)
    \/ \E i \in 2..5 : SelectFormat(i)
    \/ \E playlist \in BOOLEAN : StartDownload(playlist)
    \/ ClearInput
    \/ \E db_fails \in BOOLEAN : DeliverFinished(TRUE, GiB, db_fails)
    \/ DeliverFinished(FALSE, 0, FALSE)
    \/ CloseFinishedDialog
    \/ DeliverError
    \/ \E selected_rows \in SUBSET (1..Len(tableWidget)) : DeleteSelectedFiles(selected_rows)
    \/ WorkerFinished(T_Tmp4)
    \/ WorkerError

Spec == Init /\ [][Next]_vars

\* the engine invocation returns or raises (DownloadWorker.run, lines 87-108)
WorkerEnds == WorkerFinished(T_Tmp4) \/ WorkerError

\* the event loop delivers the queued finished or error notification to its
\* slot, whatever the file system and the store answer
DeliverTerminal ==
    \/ \E db_fails \in BOOLEAN : DeliverFinished(TRUE, GiB, db_fails)
    \/ DeliverFinished(FALSE, 0, FALSE)
    \/ DeliverError

\* the session in which a running engine call ends and the event loop goes
\* on delivering what is queued
SpecLive == Init /\ [][Next]_vars /\ WF_vars(WorkerEnds) /\ WF_vars(DeliverTerminal)

\* the session of one URL and one listing, with the engine's progress reports
\* and the timer's ticks
NextTick ==
    \/ EditUrl(<<"u", " ">>)
    \/ GetFormats(FALSE, CHOOSE listing \in SessionListings : Len(listing) = 4)
    \/ \E i \in {2, 3} : SelectFormat(i)
    \/ StartDownload(FALSE)
    \/ UpdateProgress
    \/ UpdateTable
    \/ DeliverProgress
    \/ \E size \in DiskSizes, db_fails \in BOOLEAN : DeliverFinished(TRUE, size, db_fails)
    \/ DeliverFinished(FALSE, 0, FALSE)
    \/ CloseFinishedDialog
    \/ DeliverError
    \/ \E d \in Snapshots, survives \in BOOLEAN : WorkerProgress(d, survives)
    \/ \E merged_filename \in MergedFilenames : WorkerFinished(merged_filename)
    \/ WorkerError

SpecTick == Init /\ [][NextTick]_vars

(***************************************************************************)
(* Specification of the reconciliation of two snapshots into table rows    *)
(***************************************************************************)
T_Uf137mp4 == <<"U", ".", "f", "1", "3", "7", ".", "m", "p", "4">>
T_TUf137mp4 == <<"T", ".", "U", ".", "f", "1", "3", "7", ".", "m", "p", "4">>
T_TUf140m4a == <<"T", ".", "U", ".", "f", "1", "4", "0", ".", "m", "4", "a">>
T_TXf137mp4 == <<"T", ".", "X", ".", "f", "1", "3", "7", ".", "m", "p", "4">>

\* engine filenames title.fNNN.ext of the titles T, U, T.U and T.X
ReconcileFilenames ==
    {T_Tf137mp4, T_Tf140m4a, T_Uf137mp4, T_TUf137mp4, T_TUf140m4a, T_TXf137mp4}

InitReconcile ==
    /\ store = << >> /\ store_seq = 0
    /\ GuiConstructed(<< >>)
    /\ fn = "reconcile"
    /\ arg \in ReconcileFilenames \X ReconcileFilenames
    /\ ret = << >>

\* progress_hook(d) on the control thread for the next of the two filenames,
\* once the snapshot before it has been through a tick; ret gets a 0 for a
\* snapshot that is held and not yet reconciled
ReconcileHook ==
    /\ fn = "reconcile"
    /\ Len(ret) < 2
    /\ IF ret = << >> THEN TRUE ELSE ret[Len(ret)] # 0
    /\ LET d == Snapshot("downloading", arg[Len(ret) + 1], 50, 100, Absent, 2 * MiB, 5)
       IN  /\ ProgressHook(d)
           /\ op' = Op("progress_hook", "", d)
    /\ ret' = Append(ret, 0)
    /\ UNCHANGED <<fn, arg, dbVars, lineEdit, comboVars, downloadButton, pushButton,
                   tableVars, displayVars, workerVars, queue, tick_pc, modal, fault>>

\* the timer fires with no other thread about: update_progress and, inside
\* it, update_table (lines 529-530); ret gets the row the lookup of lines
\* 571-581 gives for the label after the update, which is the row written
ReconcileTick ==
    /\ fn = "reconcile"
    /\ IF ret = << >> THEN FALSE ELSE ret[Len(ret)] = 0
    /\ LET r == update_progress(download_data, <<progressBar, downloadedLabel, fileSizeLabel>>)
           t == update_table(download_data, fileNameLabel, tableWidget, current_row_position)
           calls == r.fault = "none" /\ CallsUpdateTable(download_data)
           base == normalize_filename(strip(RemoveAll(fileNameLabel, T_DownloadingPrefix)))
       IN  /\ progressBar' = r.display[1]
           /\ downloadedLabel' = r.display[2]
           /\ fileSizeLabel' = r.display[3]
           /\ tableWidget' = IF calls THEN t.rows ELSE tableWidget
           /\ current_row_position' = IF calls THEN t.current ELSE current_row_position
           /\ fault' = IF calls THEN t.fault ELSE r.fault
           /\ ret' = [ret EXCEPT ![Len(ret)] = IF calls THEN RowOf(t.rows, base) ELSE Null]
    /\ op' = Op("update_progress", "", download_data)
    /\ UNCHANGED <<fn, arg, dbVars, lineEdit, comboVars, downloadButton, pushButton,
                   download_data, fileNameLabel, fieldVars, workerVars, queue, tick_pc,
                   modal>>

NextReconcile == ReconcileHook \/ ReconcileTick

SpecReconcile == InitReconcile /\ [][NextReconcile]_vars

(***************************************************************************)
(* Specification of two snapshots handled one after the other              *)
(***************************************************************************)
\* what the engine hands to the progress hooks: Downloading snapshots with
\* every figure, with the total, rate and ETA left out and with the filename
\* left out, a Finished snapshot, and the engine's {"status": "error"}, which
\* carries neither a filename nor figures
LatestSnapshots ==
    { Snapshot("downloading", T_Tf137mp4, 50, 100, Absent, 2 * MiB, 5),
      Snapshot("downloading", T_Uf137mp4, 100, 100, Absent, MiB, 0),
      Snapshot("downloading", T_Tf140m4a, 50, Absent, Absent, Absent, Absent),
      Snapshot("downloading", AbsentText, 50, 100, Absent, MiB, 5),
      Snapshot("finished", T_Tf137mp4, 100, 100, Absent, Absent, Absent),
      Snapshot("error", AbsentText, Absent, Absent, Absent, Absent, Absent) }

InitLatest ==
    /\ store = << >> /\ store_seq = 0
    /\ GuiConstructed(<< >>)
    /\ fn = "progress_hook"
    /\ arg \in LatestSnapshots \X LatestSnapshots
    /\ ret = << >>

\* progress_hook(d) on the control thread for the next of the two snapshots,
\* once the snapshot before it has been through a tick; ret gets a 0 for a
\* snapshot that is held and not yet through a tick
LatestHook ==
    /\ fn = "progress_hook"
    /\ Len(ret) < 2
    /\ IF ret = << >> THEN TRUE ELSE ret[Len(ret)] # 0
    /\ ProgressHook(arg[Len(ret) + 1])
    /\ op' = Op("progress_hook", "", arg[Len(ret) + 1])
    /\ ret' = Append(ret, 0)
    /\ UNCHANGED <<fn, arg, dbVars, lineEdit, comboVars, downloadButton, pushButton,
                   tableVars, displayVars, workerVars, queue, tick_pc, modal, fault>>

\* the timer fires with no other thread about: update_progress and, inside
\* it, update_table (lines 529-530); ret gets the row written, Null when
\* update_table is not called
LatestTick ==
    /\ fn = "progress_hook"
    /\ IF ret = << >> THEN FALSE ELSE ret[Len(ret)] = 0
    /\ LET r == update_progress(download_data, <<progressBar, downloadedLabel, fileSizeLabel>>)
           t == update_table(download_data, fileNameLabel, tableWidget, current_row_position)
           calls == r.fault = "none" /\ CallsUpdateTable(download_data)
           base == normalize_filename(strip(RemoveAll(fileNameLabel, T_DownloadingPrefix)))
       IN  /\ progressBar' = r.display[1]
           /\ downloadedLabel' = r.display[2]
           /\ fileSizeLabel' = r.display[3]
           /\ tableWidget' = IF calls THEN t.rows ELSE tableWidget
           /\ current_row_position' = IF calls THEN t.current ELSE current_row_position
           /\ fault' = IF calls THEN t.fault ELSE r.fault
           /\ ret' = [ret EXCEPT ![Len(ret)] = IF calls THEN RowOf(t.rows, base) ELSE Null]
    /\ op' = Op("update_progress", "", download_data)
    /\ UNCHANGED <<fn, arg, dbVars, lineEdit, comboVars, downloadButton, pushButton,
                   download_data, fileNameLabel, fieldVars, workerVars, queue, tick_pc,
                   modal>>

NextLatest == LatestHook \/ LatestTick

SpecLatest == InitLatest /\ [][NextLatest]_vars

(***************************************************************************)
(* Claims about the pure functions                                         *)
(***************************************************************************)
\* the quality order Low Resolution < 480p < 720p < 1080p < 2K < 4K
LabelRank(label) ==
    CASE label = T_LowResolution -> 0
      [] label = T_480p -> 1
      [] label = T_720p -> 2
      [] label = T_1080p -> 3
      [] label = T_2K -> 4
      [] label = T_4K -> 5

\* the label of a catalog entry "code: label"
EntryLabel(entry) == SubSeq(entry, Find(entry, ":") + 2, Len(entry))

\* C3: filename normalization is idempotent:
\* normalize_filename(normalize_filename(f)) = normalize_filename(f) for every f.
C3_NormalizeIdempotent ==
    (fn = "normalize_filename" /\ Len(ret) = 2) => ret[2] = ret[1]

\* C4: the video entries offered to the user (parse_formats, then the order of
\* populate_combo_box) are in descending quality rank, and entries with the
\* same label keep their discovery order.
C4_CatalogDescendingQuality ==
    (fn = "parse_formats" /\ Len(ret) = 2) =>
        LET formats == ret[1]
            items == ret[2]
            first == IF formats.audio # NullText THEN 3 ELSE 2
            SameLabel(l) == LET Is(e) == EntryLabel(e) = l IN
                SelectSeq(SubSeq(items, first, Len(items)), Is) = SelectSeq(formats.video, Is)
        IN  /\ Len(items) = first - 1 + Len(formats.video)
            /\ \A i, j \in first..Len(items) :
                   i < j => LabelRank(EntryLabel(items[i])) >= LabelRank(EntryLabel(items[j]))
            /\ \A l \in {T_LowResolution, T_480p, T_720p, T_1080p, T_2K, T_4K} : SameLabel(l)

\* C5: resolution classification is monotonic in the height, whatever the
\* widths: H1 <= H2 implies rank(label(W1xH1)) <= rank(label(W2xH2)).
C5_LabelMonotonic ==
    (fn = "resolution_to_label" /\ Len(ret) = 2 /\ arg[1].height <= arg[2].height) =>
        LabelRank(ret[1]) <= LabelRank(ret[2])

C5_Witness ==
    /\ fn = "resolution_to_label" /\ Len(ret) = 2
    /\ arg[1].height < arg[2].height /\ arg[1].width > arg[2].width
    /\ ret[1] = T_720p /\ ret[2] = T_1080p

\* C6: parse_formats returns as the audio entry the code of the last line
\* matching the audio-only pattern (none when no line matches), one video
\* entry per line matching the video pattern, in order, and nothing for the
\* other lines.
C6_ParseFormatsResult ==
    (fn = "parse_formats" /\ Len(ret) >= 1) =>
        LET formats == ret[1]
            IsVideo(line) == line.kind = "video"
            videoLines == SelectSeq(arg, IsVideo)
            audioAt == {i \in 1..Len(arg) : arg[i].kind = "audio"}
            lastAudio == CHOOSE i \in audioAt : \A j \in audioAt : j <= i
        IN  /\ formats.audio = IF audioAt = {} THEN NullText
                               ELSE FormatText(Digits(arg[lastAudio].code), T_AudioOnly)
            /\ Len(formats.video) = Len(videoLines)
            /\ \A i \in 1..Len(videoLines) :
                   /\ SubSeq(formats.video[i], 1, Find(formats.video[i], ":") - 1)
                          = Digits(videoLines[i].code)
                   /\ LabelRank(EntryLabel(formats.video[i]))
                          = Cardinality({h \in {480, 720, 1080, 1440, 2160} :
                                             videoLines[i].height >= h})

C6_Witness ==
    /\ fn = "parse_formats" /\ Len(ret) >= 1
    /\ Len(arg) = 3
    /\ arg[1].kind = "audio" /\ arg[2].kind = "other" /\ arg[3].kind = "audio"
    /\ arg[1].code # arg[3].code
    /\ ret[1].audio = FormatText(Digits(arg[3].code), T_AudioOnly)

\* C10: after delete_files_from_database(S, table) no row has a filename in S
\* and every row whose filename is not in S is still there, unchanged and in
\* order (ret holds the rows before the call).
C10_DeleteRemovesExactlyS ==
    (fn = "db_functions" /\ arg.call = "delete_files_from_database") =>
        LET S == {arg.filenames[i] : i \in 1..Len(arg.filenames)}
            NotInS(row) == row.filename \notin S
        IN  /\ \A i \in 1..Len(store) : store[i].filename \notin S
            /\ fetch_entries_from_database(store) = SelectSeq(ret, NotInS)

\* two rows of one filename and a row of another: deleting the first filename
\* removed both and left the other
C10_Witness ==
    /\ fn = "db_functions" /\ arg.call = "delete_files_from_database"
    /\ Len(ret) = 3 /\ Len(store) = 1
    /\ \E i, j \in 1..3 : i # j /\ ret[i].filename = ret[j].filename
                           /\ ret[i].filename = arg.filenames[1]


(***************************************************************************)
(* Claims about the session                                                *)
(***************************************************************************)
\* the snapshot's total is 0, None, or given by neither key
TotalUnknown(d) == TotalBytes(d, Absent) \in {0, Null, Absent}

\* C1: a periodic tick taken on a held snapshot whose total is 0, absent or
\* None shows percent 0 and raises no division or type fault, whatever the
\* snapshot's downloaded_bytes.
C1_UnknownTotalShowsZero ==
    (op.name \in {"update_progress", "update_table"} /\ op.data # EmptyDict
        /\ TotalUnknown(op.data))
    => (fault = "none" /\ (op.name = "update_progress" => progressBar = 0))

\* C2: once the snapshot held is a Finished one, a periodic tick
\* (update_progress, update_table) leaves the results table unchanged.
C2_FinishedFreezesTable ==
    [][(download_data.status = "finished"
            /\ op'.name \in {"update_progress", "update_table"})
        => tableWidget' = tableWidget]_vars

\* C7: start_download with an empty or whitespace-only URL reports the URL
\* error and changes neither the worker, the start trigger, the reconciler
\* state, the results table nor the persisted records.
C7_EmptyUrlStartsNothing ==
    [][(op'.name = "start_download" /\ strip(lineEdit) = << >>)
        => /\ op'.outcome = "URL Error"
           /\ UNCHANGED <<workerVars, queue, downloadButton, download_data,
                          fileNameLabel, fieldVars, displayVars, tableVars, dbVars>>]_vars

C7_Witness ==
    /\ op.name = "start_download" /\ op.outcome = "URL Error"
    /\ lineEdit = <<" ">>
    /\ selectionType = "video1080p"
    /\ worker = "done" /\ store # << >> /\ tableWidget # << >>

\* nothing was ever selected, the placeholder or nothing is current, or the
\* current entry is labelled 480p or Low Resolution
NoValidTier ==
    \/ selectionType = "None"
    \/ comboIndex <= 1
    \/ EntryLabel(comboItems[comboIndex]) \in {T_480p, T_LowResolution}

\* C8: start_download with a non-empty URL and no valid quality tier selected
\* (selectionType None, placeholder or empty selection, an entry labelled 480p
\* or Low Resolution) creates no worker and leaves the start trigger enabled.
C8_NoTierStartsNothing ==
    [][(op'.name = "start_download" /\ strip(lineEdit) # << >> /\ NoValidTier)
        => /\ op'.outcome \in {"Selection Error", "Invalid selection type"}
           /\ UNCHANGED <<workerVars, queue>>
           /\ downloadButton' = TRUE]_vars

C8_Witness ==
    /\ op.name = "start_download" /\ op.outcome = "Selection Error"
    /\ strip(lineEdit) # << >>
    /\ comboIndex >= 2 /\ EntryLabel(comboItems[comboIndex]) = T_480p
    /\ worker = "none" /\ downloadButton

\* the format expression of a tier, by the label of the catalog entry
TierExpression(label) ==
    CASE label = T_AudioOnly -> "bestaudio/best"
      [] label = T_720p -> "bestvideo[height<=720]+bestaudio"
      [] label = T_1080p -> "bestvideo[height=1080]+bestaudio"
      [] label = T_2K -> "bestvideo[height=1440]+bestaudio"
      [] label = T_4K -> "bestvideo[height=2160]+bestaudio"
      [] OTHER -> "no tier"

\* C9: the transfer started by start_download uses the format expression of
\* the tier of the entry the user selected, whatever the entry's format code.
C9_TierExpressionOfEntry ==
    (op.name = "start_download" /\ op.outcome = "started")
    => /\ comboIndex >= 2
       /\ download_thread.format = TierExpression(EntryLabel(comboItems[comboIndex]))

C9_Witness ==
    /\ op.name = "start_download" /\ op.outcome = "started"
    /\ comboItems[comboIndex] = FormatText(Digits(1440), T_4K)
    /\ download_thread.format = "bestvideo[height=2160]+bestaudio"

\* C11: a finished notification whose artifact exists (and whose insert does
\* not raise) adds exactly one persisted record, for the final artifact name,
\* with status "Completed", time left "N/A", transfer rate "0.00 MB/s" and the
\* size in GB exactly when the size on disk is at least 1 GiB, in MB otherwise.
C11_CompletionRecord ==
    [][(op'.name = "on_download_finished" /\ op'.outcome = "saved")
        => /\ Len(store') = Len(store) + 1
           /\ SubSeq(store', 1, Len(store)) = store
           /\ LET record == store'[Len(store')]
                  size == op'.data.total_bytes
              IN  /\ record.filename = queue[1].name
                  /\ record.status = CompletedText
                  /\ record.time_left = NAText
                  /\ record.transfer_rate = SizeText("MB/s", 0)
                  /\ record.file_size =
                         IF size >= GiB THEN SizeText("GB", GBHundredths(size))
                         ELSE SizeText("MB", MBHundredths(size))]_vars

\* C12: when a finished notification is handled and the artifact is not on
\* disk, no record is inserted, the user is told of an error and not of a
\* completed download, the start trigger is enabled, and download_data is
\* empty when the handler is done.
C12_MissingArtifactReported ==
    [][/\ (op'.name = "on_download_finished" /\ op'.outcome = "missing")
           => (store' = store /\ downloadButton' = TRUE /\ modal' # "Download Finished")
       /\ (op'.name = "on_download_finished" /\ op'.outcome = "cleared")
           => download_data' = EmptyDict]_vars

\* C13: when the insert raises while a finished notification is handled, the
\* handler still leaves download_data empty (so that the next tick shows
\* zeroed figures) and the start trigger enabled.
C13_WriteFailureStillResets ==
    (op.name = "on_download_finished" /\ op.outcome = "Download Error")
    => (download_data = EmptyDict /\ downloadButton)

\* C14: when the engine fails, the triggering control is enabled again, no
\* record is inserted and the catalog shown is not replaced: on_download_error
\* enables the start trigger and leaves the stored rows and the combo box
\* alone; a failed listing in get_formats leaves the listing trigger enabled
\* and the stored rows and the combo box as they were.
C14_EngineFailureLeavesState ==
    [][/\ op'.name = "on_download_error"
           => (downloadButton' = TRUE /\ UNCHANGED <<dbVars, comboVars>>)
       /\ (op'.name = "get_formats" /\ op'.outcome = "Error")
           => (pushButton' = TRUE /\ UNCHANGED <<dbVars, comboVars>>)]_vars

C14_Witness ==
    /\ op.name = "get_formats" /\ op.outcome = "Error"
    /\ comboIndex >= 2 /\ selectionType = "video1080p"
    /\ pushButton /\ store # << >>

\* finished and error are the terminal signals of a worker
IsTerminal(sig) == sig \in {"finished", "error"}

\* C15: a run of a download worker emits exactly one terminal signal
\* (finished or error, never both) and no progress signal after it: while the
\* worker runs it has emitted no terminal signal, and once it has ended the
\* terminal signal is the last one it emitted and the only one.
C15_OneTerminalSignal ==
    /\ worker = "none" => emitted = << >>
    /\ worker = "running" => SelectSeq(emitted, IsTerminal) = << >>
    /\ worker = "done" =>
          /\ Len(SelectSeq(emitted, IsTerminal)) = 1
          /\ IsTerminal(emitted[Len(emitted)])

C15_Witness ==
    /\ worker = "done"
    /\ emitted = <<"progress", "progress", "finished">>
    /\ queue = << >>

\* C16: the worker thread never writes the control thread's reconciler state:
\* a step of the worker (an engine progress event, finished.emit, error.emit)
\* leaves download_data, the filename label and status, file_size,
\* downloaded_bytes, transfer_rate and eta as they are; they change only when a
\* notification is delivered on the control thread.
C16_WorkerLeavesReconcilerAlone ==
    [][op'.name \in {"worker progress_hook", "worker finished.emit", "worker error.emit"}
        => UNCHANGED <<download_data, fileNameLabel, fieldVars>>]_vars

\* C17: at most one download worker runs: from the start of a worker until its
\* finished or error notification has been handled the start trigger is
\* disabled, whatever other operation runs in between, so start_download
\* cannot run again.
C17_OneWorkerAtATime ==
    (worker = "running" \/ \E i \in 1..Len(queue) : IsTerminal(queue[i].sig))
    => ~downloadButton

C17_Witness ==
    /\ worker = "done" /\ queue # << >>
    /\ op.name = "clear_input"
    /\ ~downloadButton

\* C18: in every reachable state of a session the results table holds at most
\* one row per distinct normalized filename.
C18_OneRowPerNormalizedName ==
    \A i, j \in 1..Len(tableWidget) :
        i < j => normalize_filename(tableWidget[i].filename)
                     # normalize_filename(tableWidget[j].filename)

\* C19: the row a snapshot is reconciled into is keyed by the title (the engine
\* filename less one trailing suffix segment and the extension): once both
\* snapshots have been reconciled, they are in the same row exactly when their
\* filenames have the same title, dots in the title included.
C19_RowKeyedByTitle ==
    (fn = "reconcile" /\ Len(ret) = 2 /\ ret[2] # 0)
    => (ret[1] = ret[2] <=> normalize_filename(arg[1]) = normalize_filename(arg[2]))

\* C20: delete_files_from_database is atomic as a unit: when a statement
\* raises after some of the filenames have been processed, a later fetch
\* returns the rows as they were before the call.
C20_DeleteAllOrNothing ==
    (fn = "db_functions" /\ arg.call = "delete_files_from_database raises")
    => fetch_entries_from_database(store) = ret

\* the second of two statements raised after the first had removed a row
C20_Witness ==
    /\ fn = "db_functions" /\ arg.call = "delete_files_from_database raises"
    /\ arg.fails_at = 2
    /\ \E i \in 1..Len(ret) : ret[i].filename = arg.filenames[1]
    /\ fetch_entries_from_database(store) = ret

\* C21: a persisted record is created only by the completion handler of a
\* finished transfer (appended, the records before it as they were), removed
\* only by the user's delete action (the records left are as they were), and
\* every other operation leaves the persisted records unchanged.
C21_RecordLifecycle ==
    [][\/ store' = store
       \/ /\ op'.name = "on_download_finished" /\ op'.outcome = "saved"
          /\ Len(store') = Len(store) + 1
          /\ SubSeq(store', 1, Len(store)) = store
       \/ /\ op'.name = "delete_selected_files"
          /\ \E keep \in SUBSET (1..Len(store)) : store' = RowsAt(store, keep, 1)]_vars

\* a record was created by a completion of this session's transfer and the
\* delete action then removed every record
C21_Witness ==
    /\ op.name = "delete_selected_files"
    /\ store = << >> /\ store_seq = 2
    /\ started = 1 /\ worker = "done" /\ queue = << >>

\* C22: when a finished notification is handled and the artifact exists, the
\* row overwritten with the final name, the size on disk and "Completed" is
\* the row matching the transfer's normalized filename, and no other row is
\* touched, whatever the remembered row position is.
C22_CompletionWritesTransfersRow ==
    [][(op'.name = "on_download_finished" /\ op'.outcome \in {"saved", "Download Error"})
        => LET filename == queue[1].name
               row_position == RowOf(tableWidget, normalize_filename(filename))
           IN  row_position # 0
               => /\ Len(tableWidget') = Len(tableWidget)
                  /\ tableWidget'[row_position].filename = filename
                  /\ tableWidget'[row_position].file_size = FileSizeText(op'.data.total_bytes)
                  /\ tableWidget'[row_position].status = CompletedText
                  /\ \A i \in 1..Len(tableWidget) :
                         i # row_position => tableWidget'[i] = tableWidget[i]]_vars

\* a Downloading snapshot whose total is known and positive
KnownTotal(d) ==
    /\ d.status = "downloading"
    /\ d.total_bytes \notin {Absent, Null} /\ d.total_bytes > 0
    /\ d.downloaded_bytes \notin {Absent, Null}

C24_LatestSnapshotOnly ==
    (fn = "progress_hook" /\ Len(ret) = 2 /\ ret[2] # 0)
    => LET s == arg[2]
           label == LabelAfter(T_FileNameNone, s)
       IN  /\ download_data = s
           /\ fileNameLabel = label
           /\ <<status, file_size, downloaded_bytes, transfer_rate, eta>>
                  = FieldsAfter(<<"None", Null, Null, Null, Null>>, s)
           /\ <<progressBar, downloadedLabel, fileSizeLabel>>
                  = update_progress(s, <<0, IdleDownloadedText, IdleFileSizeText>>).display
           /\ ret[2] # Null
                  => tableWidget[ret[2]] = update_table(s, label, << >>, Null).rows[1]

\* no transfer is in flight: no worker was started, or the last worker's
\* finished or error notification has been handled to its end
NoTransferInFlight ==
    /\ worker = "none" \/ (worker = "done" /\ queue = << >>)
    /\ modal = "none"

\* C25: whenever no transfer is in flight, a periodic tick leaves the results
\* table unchanged and shows zeroed progress figures, after a successful
\* completion, an engine error and a failed persistence write alike.
C25_IdleTickShowsNothing ==
    [][(NoTransferInFlight /\ op'.name \in {"update_progress", "update_table"})
        => /\ tableWidget' = tableWidget
           /\ op'.name = "update_progress"
                  => /\ progressBar' = 0
                     /\ downloadedLabel' = IdleDownloadedText
                     /\ fileSizeLabel' = IdleFileSizeText]_vars

\* C26: the Completed rows shown and the persisted history agree: every
\* filename occurs as often among the Completed rows of the table as among
\* the records a fetch of the store returns.
C26_TableAgreesWithStore ==
    LET persisted == fetch_entries_from_database(store)
        Shown(name) == {i \in 1..Len(tableWidget) :
                            /\ tableWidget[i].status = CompletedText
                            /\ tableWidget[i].filename = name}
        Stored(name) == {i \in 1..Len(persisted) : persisted[i].filename = name}
    IN  \A name \in {tableWidget[i].filename : i \in 1..Len(tableWidget)}
                    \cup {persisted[i].filename : i \in 1..Len(persisted)} :
            Cardinality(Shown(name)) = Cardinality(Stored(name))

\* C27: when the engine invocation returns or raises and queued notifications
\* are delivered, every transfer started by start_download (which disables
\* the start trigger) leads to a state in which the start trigger is enabled
\* again, whether the transfer finished, failed, the artifact was missing or
\* the persistence write failed.
C27_TriggerEnabledAgain == (~downloadButton) ~> downloadButton

\* the trigger is enabled again after a transfer whose artifact was missing
C27_Witness ==
    /\ started = 1 /\ worker = "done" /\ queue = << >>
    /\ op.name = "on_download_finished" /\ op.outcome = "missing"
    /\ downloadButton

====
